---- MODULE Spec2Model ----
(***************************************************************************)
(* Model of cad-simple-viewer-example:                                     *)
(*   src/src/ellipseCmd.ts  AcApEllipseJig, AcApEllipseCmd                  *)
(*   src/src/main.ts        CadViewerApp, container variant (lines 1-218)   *)
(*                          and canvas variant (lines 220-433)              *)
(* Real numbers that the code obtains from a vector length are kept exact:  *)
(* the record [sq |-> n] stands for the non-negative real sqrt(n).          *)
(* A direction is kept as [num |-> V, den |-> L], standing for V / L.       *)
(* Angles are counted in units of pi.                                       *)
(***************************************************************************)
EXTENDS Integers, Sequences, FiniteSets, TLC

\* ------------------------------------------------------------------ bounds
MaxRuns == 2

MaxUpdates == 2

MaxLoads == 2

MaxClicks == 2

MaxMessages == 3

\* ------------------------------------------------- ellipse command: values
Pt(a, b, c) == [x |-> a, y |-> b, z |-> c]

Num(k) == [sq |-> k * k]

Points == {Pt(0, 0, 0), Pt(100, 0, 0), Pt(0, 100, 0), Pt(3, 4, 0)}

Radii == {Num(25), Num(50)}

NoPoint == [none |-> TRUE]

NoNumber == [nonum |-> TRUE]

NoJig == [nojig |-> TRUE]

Z_AXIS == Pt(0, 0, 1)

TwoPi == 2

PromptOrder == <<"center", "majorRadius", "minorRadius">>

\* new AcGeVector3d(e.x - c.x, e.y - c.y, e.z - c.z)
MajorAxisBackwards(c, e) == Pt(c.x - e.x, c.y - e.y, c.z - e.z)

MajorAxis(c, e) == Pt(e.x - c.x, e.y - c.y, e.z - c.z)

\* AcGeVector3d.length(): sqrt(x*x + y*y + z*z)
Length(v) == [sq |-> v.x * v.x + v.y * v.y + v.z * v.z]

\* AcGeVector3d.normalize(): v / |v|; for |v| = 0 the quotient has den.sq = 0
Normalize(v) == [num |-> v, den |-> Length(v)]

\* new AcDbEllipse(center, normal, majorAxis, majorAxisRadius, minorAxisRadius,
\*                 startAngle, endAngle)
AcDbEllipse(c, n, ma, rmaj, rmin, a0, a1) ==
  [center |-> c, normal |-> n, majorAxis |-> ma, majorAxisRadius |-> rmaj,
   minorAxisRadius |-> rmin, startAngle |-> a0, endAngle |-> a1]

\* AcApEllipseJig constructor: the preview starts as a circle of the major radius
JigConstructor(c, e) ==
  LET majorAxis == MajorAxis(c, e)
      majorAxisRadius == Length(majorAxis)
  IN  AcDbEllipse(c, Z_AXIS, Normalize(majorAxis), majorAxisRadius,
                  majorAxisRadius, 0, TwoPi)

JigUpdateWholeEllipse(j, r) ==
  [j EXCEPT !.minorAxisRadius = r, !.majorAxisRadius = r]

\* AcApEllipseJig.update
JigUpdate(j, r) == [j EXCEPT !.minorAxisRadius = r]

\* AcApEllipseCmd.execute, lines 68-83: the ellipse that gets appended
BuildEllipse(c, e, r) ==
  LET majorAxis == MajorAxis(c, e)
      majorAxisRadius == Length(majorAxis)
  IN  AcDbEllipse(c, Z_AXIS, Normalize(majorAxis), majorAxisRadius, r, 0, TwoPi)

\* ------------------------------------------------------ viewer app: values
\* File names are sequences of one-character strings.
NameADxf == <<"a", ".", "d", "x", "f">>

NameCDwg == <<"c", ".", "D", "w", "g">>

NameDxf == <<"d", "x", "f">>

FileNames == {NameADxf, NameCDwg, NameDxf}

DotDxf == <<".", "d", "x", "f">>

DotDwg == <<".", "d", "w", "g">>

LowerChar(c) ==
  CASE c = "B" -> "b"
    [] c = "D" -> "d"
    [] c = "F" -> "f"
    [] c = "G" -> "g"
    [] c = "W" -> "w"
    [] c = "X" -> "x"
    [] OTHER -> c

ToLowerCaseForgotten(s) == s

\* String.prototype.toLowerCase
ToLowerCase(s) == [i \in 1..Len(s) |-> LowerChar(s[i])]

\* String.prototype.endsWith
EndsWith(s, suffix) ==
  /\ Len(s) >= Len(suffix)
  /\ SubSeq(s, Len(s) - Len(suffix) + 1, Len(s)) = suffix

\* loadFile, "Validate file type": the negation of the rejecting condition
ValidFileType(name) ==
  LET fileName == ToLowerCase(name)
  IN  ~(~EndsWith(fileName, DotDxf) /\ ~EndsWith(fileName, DotDwg))

\* readFile, container variant: always reader.readAsArrayBuffer
ReadModeContainer(name) == "binary"

\* readFile, canvas variant: readAsText for .dxf, readAsArrayBuffer for .dwg,
\* reject otherwise
ReadModeCanvas(name) ==
  LET fileName == ToLowerCase(name)
  IN  IF EndsWith(fileName, DotDxf) THEN "text"
      ELSE IF EndsWith(fileName, DotDwg) THEN "binary"
      ELSE "unsupported"

\* A popup element: the message class (kind), its type, the loadFile call that
\* showed it (0: constructor or click), whether it is in document.body, its
\* opacity and which of its two timers is pending.
Popup(kind, type, by) ==
  [kind |-> kind, type |-> type, by |-> by, attached |-> TRUE,
   faded |-> FALSE, timer |-> "fade"]

\* clearMessages: every .popup-message element is removed from the page
ClearMessages(ps) == [i \in 1..Len(ps) |-> [ps[i] EXCEPT !.attached = FALSE]]

\* showMessage: clearMessages, append the popup, start the 1000 ms timer
ShowMessage(ps, kind, type, by) ==
  Append(ClearMessages(ps), Popup(kind, type, by))

\* the 1000 ms timer: opacity 0 and start the 200 ms timer
FadeTimer(ps, i) == [ps EXCEPT ![i].faded = TRUE, ![i].timer = "remove"]

RemoveTimerNeverRemoves(ps, i) == [ps EXCEPT ![i].timer = "none"]

\* the 200 ms timer: remove the popup if it still has a parent node
RemoveTimer(ps, i) ==
  [ps EXCEPT ![i].attached = IF ps[i].attached THEN FALSE ELSE ps[i].attached,
             ![i].timer = "none"]

Throws == {"none", "createInstance", "initializeLocale", "registerCommands"}

\* One loadFile call: the file's name, where the call stands, how often and how
\* the read was started, what it gave, how often openDocument was started,
\* what content it was handed and what it gave.
NewLoad(name) ==
  [name |-> name, pc |-> "start", reads |-> 0, readMode |-> "none",
   readResult |-> "none", opens |-> 0, content |-> "none",
   openResult |-> "none"]

VARIABLES
  epc,                \* position of the running execute(): idle, awaitCenter,
                      \* awaitMajor, awaitMinor, done, rejected
  center,             \* execute local
  majorAxisEndPoint,  \* execute local
  minorRadius,        \* execute local
  jig,                \* minorRadiusPrompt.jig entity (_ellipse)
  lastCandidate,      \* argument of the latest jig.update call of this run
  nUpdates,           \* jig.update calls of this run
  prompts,            \* editor.getPoint / getDistance requests of this run
  modelSpace,         \* db.tables.blockTable.modelSpace
  runs,               \* execute() invocations so far
  variant,            \* which CadViewerApp of main.ts runs: container, canvas
  isInitialized,      \* CadViewerApp.isInitialized (container variant)
  instance,           \* AcApDocManager.instance exists
  createCalls,        \* AcApDocManager.createInstance invocations
  curDocument,        \* AcApDocManager.instance.curDocument exists
  registrations,      \* commandManager.addCommand('ellipse') calls completed
  popups,             \* every popup element created, in creation order
  loads,              \* every loadFile call, in call order
  buttonVisible,      \* newDrawingButton.style.display is not 'none'
  loadedClass,        \* fileInputContainer has class 'loaded'
  loading,            \* loadingElement.style.display is 'block'
  populateCalls,      \* DocCreator.instance.createExampleDoc2 calls
  clicks              \* click events on newDrawingButton

evars == <<epc, center, majorAxisEndPoint, minorRadius, jig, lastCandidate,
           nUpdates, prompts, modelSpace, runs>>

avars == <<variant, isInitialized, instance, createCalls, curDocument,
           registrations, popups, loads, buttonVisible, loadedClass, loading,
           populateCalls, clicks>>

vars == <<evars, avars>>

EllipseIdle ==
  /\ epc = "idle"
  /\ center = NoPoint
  /\ majorAxisEndPoint = NoPoint
  /\ minorRadius = NoNumber
  /\ jig = NoJig
  /\ lastCandidate = NoNumber
  /\ nUpdates = 0
  /\ prompts = <<>>
  /\ modelSpace = <<>>
  /\ runs = 0

\* execute() entered: line 46-49, the center prompt is requested
Execute ==
  /\ UNCHANGED avars
  /\ epc \in {"idle", "done", "rejected"}
  /\ runs < MaxRuns
  /\ runs' = runs + 1
  /\ epc' = "awaitCenter"
  /\ center' = NoPoint
  /\ majorAxisEndPoint' = NoPoint
  /\ minorRadius' = NoNumber
  /\ jig' = NoJig
  /\ lastCandidate' = NoNumber
  /\ nUpdates' = 0
  /\ prompts' = <<"center">>
  /\ UNCHANGED modelSpace

\* line 49 resolves, lines 51-57 request the major-axis endpoint
CenterResolved ==
  /\ UNCHANGED avars
  /\ epc = "awaitCenter"
  /\ \E p \in Points : center' = p
  /\ prompts' = Append(prompts, "majorRadius")
  /\ epc' = "awaitMajor"
  /\ UNCHANGED <<majorAxisEndPoint, minorRadius, jig, lastCandidate, nUpdates,
                 modelSpace, runs>>

\* AcApEllipseCmd.execute with the append made as soon as the axis is known
MajorResolvedEarlyAppend ==
  /\ UNCHANGED avars
  /\ epc = "awaitMajor"
  /\ \E p \in Points :
       /\ majorAxisEndPoint' = p
       /\ jig' = JigConstructor(center, p)
       /\ modelSpace' = Append(modelSpace, JigConstructor(center, p))
  /\ prompts' = Append(prompts, "minorRadius")
  /\ epc' = "awaitMinor"
  /\ UNCHANGED <<center, minorRadius, lastCandidate, nUpdates, runs>>

\* line 57 resolves, lines 59-66 build the jig and request the distance
MajorResolved ==
  /\ UNCHANGED avars
  /\ epc = "awaitMajor"
  /\ \E p \in Points :
       /\ majorAxisEndPoint' = p
       /\ jig' = JigConstructor(center, p)
  /\ prompts' = Append(prompts, "minorRadius")
  /\ epc' = "awaitMinor"
  /\ UNCHANGED <<center, minorRadius, lastCandidate, nUpdates, modelSpace, runs>>

\* the editor drives the preview while the distance is being chosen
PreviewUpdate ==
  /\ UNCHANGED avars
  /\ epc = "awaitMinor"
  /\ nUpdates < MaxUpdates
  /\ \E r \in Radii :
       /\ jig' = JigUpdate(jig, r)
       /\ lastCandidate' = r
  /\ nUpdates' = nUpdates + 1
  /\ UNCHANGED <<epc, center, majorAxisEndPoint, minorRadius, prompts,
                 modelSpace, runs>>

\* line 66 resolves, lines 68-84 build and append the ellipse
MinorResolved ==
  /\ UNCHANGED avars
  /\ epc = "awaitMinor"
  /\ \E r \in Radii :
       /\ minorRadius' = r
       /\ modelSpace' =
            Append(modelSpace, BuildEllipse(center, majorAxisEndPoint, r))
  /\ epc' = "done"
  /\ UNCHANGED <<center, majorAxisEndPoint, jig, lastCandidate, nUpdates,
                 prompts, runs>>

\* any of the three awaited prompts rejects: execute() rejects at that await
PromptRejected ==
  /\ UNCHANGED avars
  /\ epc \in {"awaitCenter", "awaitMajor", "awaitMinor"}
  /\ epc' = "rejected"
  /\ UNCHANGED <<center, majorAxisEndPoint, minorRadius, jig, lastCandidate,
                 nUpdates, prompts, modelSpace, runs>>

EllipseNext ==
  \/ Execute
  \/ CenterResolved
  \/ MajorResolved
  \/ PreviewUpdate
  \/ MinorResolved
  \/ PromptRejected


\* ----------------------------------------------------- viewer app: actions
\* The part of the state that initialize() touches.
Runtime ==
  [isInitialized |-> isInitialized, instance |-> instance,
   createCalls |-> createCalls, curDocument |-> curDocument,
   registrations |-> registrations, popups |-> popups]

InitFailed(rt, by) ==
  [rt EXCEPT !.popups = ShowMessage(@, "initFailed", "error", by)]

\* CadViewerApp.initialize (container variant). t names the call that throws,
\* d whether the runtime just created has a current document.
Initialize(rt, t, d, by) ==
  IF rt.isInitialized THEN rt
  ELSE LET called == [rt EXCEPT !.createCalls = @ + 1]
           created == [called EXCEPT !.instance = TRUE, !.curDocument = d]
           registered == [created EXCEPT !.registrations = @ + 1]
       IN  IF t = "createInstance" THEN InitFailed(called, by)
           ELSE IF t = "initializeLocale" THEN InitFailed(created, by)
           ELSE IF t = "registerCommands" THEN InitFailed(created, by)
           ELSE [registered EXCEPT !.isInitialized = TRUE]

SetRuntime(rt) ==
  /\ isInitialized' = rt.isInitialized
  /\ instance' = rt.instance
  /\ createCalls' = rt.createCalls
  /\ curDocument' = rt.curDocument
  /\ registrations' = rt.registrations

\* hideNewButton (container variant), lines 289-295 (canvas variant)
HideNewButtonForgotten(visible) == visible

HideNewButton(visible) == FALSE

\* loadFile, container variant, up to the first await (lines 101-116)
LoadFileContainer(name, t, d) ==
  LET id == Len(loads) + 1
      rt == Initialize(Runtime, t, d, id)
  IN  /\ variant = "container"
      /\ SetRuntime(rt)
      /\ IF ~ValidFileType(name)
         THEN /\ popups' = ShowMessage(rt.popups, "badFileType", "error", id)
              /\ loads' = Append(loads, [NewLoad(name) EXCEPT !.pc = "done"])
              /\ UNCHANGED buttonVisible
         ELSE /\ buttonVisible' = HideNewButton(buttonVisible)
              /\ popups' = ClearMessages(rt.popups)
              /\ loads' = Append(loads,
                   [NewLoad(name) EXCEPT !.pc = "reading", !.reads = 1,
                                         !.readMode = ReadModeContainer(name)])
      /\ UNCHANGED <<variant, loadedClass, loading, populateCalls, clicks>>

\* loadFile, canvas variant, up to the first await (lines 300-318)
LoadFileCanvas(name) ==
  LET id == Len(loads) + 1
  IN  /\ variant = "canvas"
      /\ IF ~instance
         THEN /\ popups' = ShowMessage(popups, "notInitialized", "error", id)
              /\ loads' = Append(loads, [NewLoad(name) EXCEPT !.pc = "done"])
              /\ UNCHANGED loading
         ELSE IF ~ValidFileType(name)
         THEN /\ popups' = ShowMessage(popups, "badFileType", "error", id)
              /\ loads' = Append(loads, [NewLoad(name) EXCEPT !.pc = "done"])
              /\ UNCHANGED loading
         ELSE /\ loading' = TRUE
              /\ popups' = ClearMessages(popups)
              /\ loads' = Append(loads,
                   [NewLoad(name) EXCEPT
                      !.pc = "reading",
                      !.reads = IF ReadModeCanvas(name) = "unsupported"
                                THEN 0 ELSE 1,
                      !.readMode = ReadModeCanvas(name)])
      /\ UNCHANGED <<variant, isInitialized, instance, createCalls,
                     curDocument, registrations, buttonVisible, loadedClass,
                     populateCalls, clicks>>

\* the 'change' listener of fileInput (setupFileHandling) with a file chosen
FileSelected ==
  /\ Len(loads) < MaxLoads
  /\ \E name \in FileNames :
       \/ \E t \in Throws, d \in BOOLEAN : LoadFileContainer(name, t, d)
       \/ LoadFileCanvas(name)
  /\ UNCHANGED evars

\* finally { this.showLoading(false) } exists in the canvas variant only
AfterLoad == IF variant = "canvas" THEN FALSE ELSE loading

\* loadFile after `await this.readFile(file)`: lines 116-135 and the catch
ReadSettled(i, ok) ==
  /\ loads[i].pc = "reading"
  /\ loads[i].readMode = "unsupported" => ~ok
  /\ IF ~ok
     THEN /\ popups' = ShowMessage(popups, "loadError", "error", i)
          /\ loads' = [loads EXCEPT ![i].pc = "done",
                                    ![i].readResult = "rejected"]
          /\ loading' = AfterLoad
          /\ UNCHANGED loadedClass
     ELSE /\ loadedClass' = TRUE
          /\ IF ~instance
             THEN \* AcApDocManager.instance.openDocument throws a TypeError
                  /\ popups' = ShowMessage(popups, "loadError", "error", i)
                  /\ loads' = [loads EXCEPT ![i].pc = "done",
                                            ![i].readResult = "resolved"]
                  /\ loading' = AfterLoad
             ELSE /\ loads' = [loads EXCEPT ![i].pc = "opening",
                                            ![i].readResult = "resolved",
                                            ![i].opens = @ + 1,
                                            ![i].content = loads[i].readMode]
                  /\ UNCHANGED <<popups, loading>>

FileRead ==
  /\ \E i \in 1..Len(loads), ok \in BOOLEAN : ReadSettled(i, ok)
  /\ UNCHANGED <<evars, variant, isInitialized, instance, createCalls,
                 curDocument, registrations, buttonVisible, populateCalls,
                 clicks>>

OpenSettledAlwaysSuccess(i, res) ==
  /\ loads[i].pc = "opening"
  /\ loads' = [loads EXCEPT ![i].pc = "done", ![i].openResult = res]
  /\ popups' = ShowMessage(popups, "loaded", "success", i)
  /\ curDocument' = curDocument
  /\ loading' = AfterLoad

\* loadFile after `await openDocument(...)`: lines 137-145
OpenSettled(i, res) ==
  /\ loads[i].pc = "opening"
  /\ loads' = [loads EXCEPT ![i].pc = "done", ![i].openResult = res]
  /\ popups' =
       IF res = "true" THEN ShowMessage(popups, "loaded", "success", i)
       ELSE IF res = "false" THEN ShowMessage(popups, "loadFailed", "error", i)
       ELSE ShowMessage(popups, "loadError", "error", i)
  /\ curDocument' = IF res = "true" THEN TRUE ELSE curDocument
  /\ loading' = AfterLoad

DocumentOpened ==
  /\ \E i \in 1..Len(loads), res \in {"true", "false", "rejected"} :
       OpenSettled(i, res)
  /\ UNCHANGED <<evars, variant, isInitialized, instance, createCalls,
                 registrations, buttonVisible, loadedClass, populateCalls,
                 clicks>>

\* the 'click' listener of newDrawingButton after its initialize() call
NewDrawing(rt) ==
  /\ SetRuntime(rt)
  /\ IF ~rt.instance
     THEN /\ popups' = ShowMessage(rt.popups, "notInitialized", "error", 0)
          /\ UNCHANGED <<loadedClass, populateCalls, buttonVisible>>
     ELSE /\ popups' = rt.popups
          /\ IF rt.curDocument
             THEN /\ loadedClass' = TRUE
                  /\ populateCalls' = populateCalls + 1
                  /\ buttonVisible' = HideNewButton(buttonVisible)
             ELSE UNCHANGED <<loadedClass, populateCalls, buttonVisible>>

\* setupNewDrawingHandling: a click, possible while the button is displayed
NewDrawingClicked ==
  /\ buttonVisible
  /\ clicks < MaxClicks
  /\ clicks' = clicks + 1
  /\ \/ /\ variant = "container"
        /\ \E t \in Throws, d \in BOOLEAN :
             NewDrawing(Initialize(Runtime, t, d, 0))
     \/ /\ variant = "canvas"
        /\ NewDrawing(Runtime)
  /\ UNCHANGED <<evars, variant, loads, loading>>

\* the 1000 ms timer of a popup fires
FadeTimerFires(i) ==
  /\ i \in 1..Len(popups)
  /\ popups[i].timer = "fade"
  /\ popups' = FadeTimer(popups, i)
  /\ UNCHANGED <<evars, variant, isInitialized, instance, createCalls,
                 curDocument, registrations, loads, buttonVisible, loadedClass,
                 loading, populateCalls, clicks>>

\* the 200 ms timer of a popup fires
RemoveTimerFires(i) ==
  /\ i \in 1..Len(popups)
  /\ popups[i].timer = "remove"
  /\ popups' = RemoveTimer(popups, i)
  /\ UNCHANGED <<evars, variant, isInitialized, instance, createCalls,
                 curDocument, registrations, loads, buttonVisible, loadedClass,
                 loading, populateCalls, clicks>>

PopupBound == 2 * MaxLoads + 2 * MaxClicks + MaxMessages + 1

TimerFires ==
  \E i \in 1..PopupBound : FadeTimerFires(i) \/ RemoveTimerFires(i)

\* a showMessage call on its own
ShowMessageCalled ==
  /\ Len(popups) < MaxMessages
  /\ \E type \in {"success", "error", "info"} :
       popups' = ShowMessage(popups, "message", type, 0)
  /\ UNCHANGED <<evars, variant, isInitialized, instance, createCalls,
                 curDocument, registrations, loads, buttonVisible, loadedClass,
                 loading, populateCalls, clicks>>

\* a clearMessages call on its own
ClearMessagesCalled ==
  /\ popups' = ClearMessages(popups)
  /\ UNCHANGED <<evars, variant, isInitialized, instance, createCalls,
                 curDocument, registrations, loads, buttonVisible, loadedClass,
                 loading, populateCalls, clicks>>

\* ------------------------------------------------------------ initial states
\* container variant: the constructor only registers the two listeners
ContainerConstructed ==
  /\ variant = "container"
  /\ isInitialized = FALSE
  /\ instance = FALSE
  /\ createCalls = 0
  /\ curDocument = FALSE
  /\ registrations = 0
  /\ popups = <<>>
  /\ loads = <<>>
  /\ buttonVisible = TRUE
  /\ loadedClass = FALSE
  /\ loading = FALSE
  /\ populateCalls = 0
  /\ clicks = 0

\* canvas variant: the constructor has run initializeViewer (lines 245-253)
CanvasConstructed ==
  /\ variant = "canvas"
  /\ isInitialized = FALSE
  /\ createCalls = 1
  /\ instance \in BOOLEAN
  /\ curDocument \in (IF instance THEN BOOLEAN ELSE {FALSE})
  /\ registrations = 0
  /\ popups = (IF instance THEN <<>>
               ELSE ShowMessage(<<>>, "initFailed", "error", 0))
  /\ loads = <<>>
  /\ buttonVisible = TRUE
  /\ loadedClass = FALSE
  /\ loading = FALSE
  /\ populateCalls = 0
  /\ clicks = 0

Init == EllipseIdle /\ (ContainerConstructed \/ CanvasConstructed)

\* The timers of the popups change nothing but the popups' own fields; their
\* firings are explored in MessageSpec.
Next ==
  \/ FileSelected
  \/ FileRead
  \/ DocumentOpened
  \/ NewDrawingClicked

Spec == Init /\ [][Next]_vars

EllipseInit == EllipseIdle /\ ContainerConstructed

EllipseSpec == EllipseInit /\ [][EllipseNext]_vars

MessageInit == EllipseIdle /\ ContainerConstructed

MessageNext ==
  \/ ShowMessageCalled
  \/ ClearMessagesCalled
  \/ TimerFires

MessageSpec == MessageInit /\ [][MessageNext]_vars

\* timers that were started do fire
MessageLiveSpec ==
  /\ MessageSpec
  /\ \A i \in 1..PopupBound :
       WF_vars(FadeTimerFires(i)) /\ WF_vars(RemoveTimerFires(i))

\* ------------------------------------------------------- ellipse: claims

Degenerate == majorAxisEndPoint # NoPoint /\ majorAxisEndPoint = center

\* C3: when the major-axis endpoint equals the center, the jig constructor and
\* execute end in an error: no jig ellipse is built, the run does not go on to
\* the distance prompt and nothing is appended to model space.
C3_DegenerateAxisIsError ==
  Degenerate => (jig = NoJig /\ epc \notin {"awaitMinor", "done"})

\* |P1 - P0|^2, written out from the coordinates
DistSq(p0, p1) ==
  (p1.x - p0.x) * (p1.x - p0.x) + (p1.y - p0.y) * (p1.y - p0.y)
    + (p1.z - p0.z) * (p1.z - p0.z)

\* e has center p0, the Z axis as normal, direction (p1-p0)/|p1-p0|, major
\* radius |p1-p0| and the full sweep 0 .. 2*pi
FromCenterAndAxis(e, p0, p1) ==
  /\ e.center = p0
  /\ e.normal = [x |-> 0, y |-> 0, z |-> 1]
  /\ e.majorAxis.num.x = p1.x - p0.x
  /\ e.majorAxis.num.y = p1.y - p0.y
  /\ e.majorAxis.num.z = p1.z - p0.z
  /\ e.majorAxis.den.sq = DistSq(p0, p1)
  /\ e.majorAxisRadius.sq = DistSq(p0, p1)
  /\ e.startAngle = 0
  /\ e.endAngle = 2

LastAppended == modelSpace[Len(modelSpace)]

\* C4: for P1 # P0 the ellipse execute appends has center P0, normal Z,
\* direction (P1-P0)/|P1-P0|, major radius |P1-P0|, minor radius r and sweep
\* 0 .. 2*pi; P0=(0,0,0), P1=(0,100,0), r=25 gives radii 100 and 25.
C4_EllipseFromPrompts ==
  (epc = "done" /\ majorAxisEndPoint # center) =>
    /\ Len(modelSpace) > 0
    /\ FromCenterAndAxis(LastAppended, center, majorAxisEndPoint)
    /\ LastAppended.minorAxisRadius = minorRadius
    /\ (/\ center = [x |-> 0, y |-> 0, z |-> 0]
        /\ majorAxisEndPoint = [x |-> 0, y |-> 100, z |-> 0]
        /\ minorRadius.sq = 625)
         => (/\ LastAppended.majorAxisRadius.sq = 10000
             /\ LastAppended.minorAxisRadius.sq = 625)

C4_Witness ==
  /\ epc = "done"
  /\ center = [x |-> 0, y |-> 0, z |-> 0]
  /\ majorAxisEndPoint = [x |-> 0, y |-> 100, z |-> 0]
  /\ minorRadius.sq = 625
  /\ Len(modelSpace) = 1

PromptsInOrder ==
  /\ Len(prompts) <= 3
  /\ \A i \in 1..Len(prompts) : prompts[i] = PromptOrder[i]
  /\ epc = "awaitCenter" => Len(prompts) = 1
  /\ epc = "awaitMajor" => Len(prompts) = 2
  /\ epc \in {"awaitMinor", "done"} => Len(prompts) = 3
  /\ Len(modelSpace) <= runs

AppendOnCompletionOnly ==
  /\ (epc # "done" /\ epc' = "done") =>
       /\ prompts = PromptOrder
       /\ Len(modelSpace') = Len(modelSpace) + 1
       /\ SubSeq(modelSpace', 1, Len(modelSpace)) = modelSpace
  /\ (modelSpace' # modelSpace) => (epc = "awaitMinor" /\ epc' = "done")

\* C5: one run requests center, major-axis endpoint, minor radius in that
\* order and appends exactly one ellipse, on the step where the third prompt
\* resolves; a run that is rejected or still waiting leaves model space alone.
C5_PromptOrderAndSingleAppend ==
  []PromptsInOrder /\ [][AppendOnCompletionOnly]_vars

C5_Witness ==
  /\ epc = "done"
  /\ runs = 2
  /\ Len(modelSpace) = 1
  /\ prompts = PromptOrder

PreviewAsConstructed ==
  jig # NoJig =>
    /\ FromCenterAndAxis(jig, center, majorAxisEndPoint)
    /\ nUpdates = 0 => jig.minorAxisRadius = jig.majorAxisRadius
    /\ nUpdates > 0 => jig.minorAxisRadius = lastCandidate

\* C6: after any sequence of update calls the preview's minor radius is the
\* last candidate, everything else is as constructed from P0 and P1, model
\* space is untouched by update; before the first update minor = major radius.
C6_JigUpdateFrame ==
  /\ []PreviewAsConstructed
  /\ [][nUpdates' > nUpdates => modelSpace' = modelSpace]_vars

C6_Witness ==
  /\ jig # NoJig
  /\ nUpdates = 2
  /\ lastCandidate.sq = 625
  /\ jig.majorAxisRadius.sq = 10000
  /\ jig.minorAxisRadius.sq = 625

\* ---------------------------------------------------- viewer app: claims

\* C1: over any sequence of initialize calls, also after an earlier call threw,
\* AcApDocManager.createInstance is invoked at most once.
C1_CreateInstanceAtMostOnce == createCalls <= 1

\* the names of FileNames that end in .dxf / .dwg once lower-cased
DxfNames == {<<"a", ".", "d", "x", "f">>}

DwgNames == {<<"c", ".", "D", "w", "g">>}

ErrorShownBy(i) ==
  \E k \in 1..Len(popups) : popups[k].by = i /\ popups[k].type = "error"

RejectedUnread(i) ==
  /\ loads[i].pc = "done"
  /\ loads[i].reads = 0
  /\ loads[i].opens = 0
  /\ ErrorShownBy(i)

\* C2 as stated: a name ending in .dxf or .dwg (case-insensitive) proceeds to
\* the read step; any other name gets the error notification and no read and
\* no openDocument call.
C2_AcceptedProceedsToRead ==
  \A i \in 1..Len(loads) :
    IF loads[i].name \in DxfNames \cup DwgNames
    THEN loads[i].reads = 1
    ELSE RejectedUnread(i)

\* C2 amended: as C2, except that the canvas variant without a runtime
\* instance shows the error notification and reads nothing whatever the name.
C2_AcceptedProceedsToReadIfInstance ==
  \A i \in 1..Len(loads) :
    IF loads[i].name \in DxfNames \cup DwgNames
         /\ ~(variant = "canvas" /\ ~instance)
    THEN loads[i].reads = 1
    ELSE RejectedUnread(i)

C2_Witness ==
  \E i, j \in 1..Len(loads) :
    /\ loads[i].name = <<"c", ".", "D", "w", "g">>
    /\ loads[i].reads = 1
    /\ loads[j].name = <<"d", "x", "f">>
    /\ loads[j].reads = 0
    /\ variant = "canvas"

\* the notifications a loadFile call shows for its own outcome (the container
\* variant's initialize() reports a failed initialization on its own)
OutcomePopups(i) ==
  {k \in 1..Len(popups) : popups[k].by = i /\ popups[k].kind # "initFailed"}

\* C7: a finished loadFile has shown exactly one outcome notification: an
\* error for an unsupported extension, a rejected read and openDocument giving
\* false, a success only when openDocument gave true; an unfinished one has
\* shown none; read and openDocument are each started at most once per call.
C7_OneOutcomeOneNotification ==
  \A i \in 1..Len(loads) :
    /\ loads[i].reads <= 1
    /\ loads[i].opens <= 1
    /\ loads[i].pc # "done" => OutcomePopups(i) = {}
    /\ loads[i].pc = "done" =>
         /\ Cardinality(OutcomePopups(i)) = 1
         /\ \A k \in OutcomePopups(i) :
              /\ loads[i].name \notin DxfNames \cup DwgNames
                   => popups[k].type = "error"
              /\ loads[i].readResult = "rejected" => popups[k].type = "error"
              /\ loads[i].openResult = "false" => popups[k].type = "error"
              /\ popups[k].type = "success" => loads[i].openResult = "true"
              /\ popups[k].type \in {"success", "error"}

C7_Witness ==
  /\ Len(loads) = 2
  /\ loads[1].pc = "done"
  /\ loads[1].openResult = "false"
  /\ loads[2].pc = "done"
  /\ loads[2].openResult = "true"
  /\ \E k \in OutcomePopups(2) : popups[k].type = "success"

\* C8: a .dxf file is read as text, a .dwg file as binary, and openDocument
\* is handed the result of that read.
C8_ReadModeByExtension ==
  \A i \in 1..Len(loads) :
    /\ (loads[i].reads >= 1 /\ loads[i].name \in DxfNames)
         => loads[i].readMode = "text"
    /\ (loads[i].reads >= 1 /\ loads[i].name \in DwgNames)
         => loads[i].readMode = "binary"
    /\ loads[i].opens >= 1 => loads[i].content = loads[i].readMode

ClickWithDocument == clicks' = clicks + 1 /\ instance' /\ curDocument'

\* C9: a click while a current document exists calls createExampleDoc2 once
\* and leaves the button hidden; a hidden button stays hidden; the population
\* routine runs at most once.
C9_PopulateOnce ==
  /\ [](populateCalls <= 1)
  /\ [][ClickWithDocument =>
          (populateCalls' = populateCalls + 1 /\ ~buttonVisible')]_vars
  /\ [][~buttonVisible => ~buttonVisible']_vars

C9_Witness ==
  /\ populateCalls = 1
  /\ ~buttonVisible
  /\ clicks = 2
  /\ Len(loads) = 2
  /\ loads[2].pc = "done"

Present(i) == i <= Len(popups) /\ popups[i].attached

StaleTimerFires ==
  \E i \in 1..Len(popups) :
    /\ ~popups[i].attached
    /\ Len(popups') = Len(popups)
    /\ popups'[i].timer # popups[i].timer

\* C10: every popup showMessage adds is eventually off the page, at most one
\* popup is on the page at any moment, and a timer firing for a popup that
\* was already removed leaves the page as it is.
C10_PopupsDismissed ==
  /\ \A i \in 1..PopupBound : Present(i) ~> ~Present(i)
  /\ [](Cardinality({i \in 1..Len(popups) : popups[i].attached}) <= 1)
  /\ [][StaleTimerFires =>
          \A i \in 1..Len(popups) : popups'[i].attached = popups[i].attached]_vars

C10_Witness ==
  /\ Len(popups) = 3
  /\ popups[1].timer = "none"
  /\ popups[2].timer = "fade"
  /\ ~popups[2].attached
  /\ popups[3].attached
  /\ popups[3].faded

\* the accepted loadFile calls that have not reached their finally block
LoadsInProgress == {i \in 1..Len(loads) : loads[i].pc \in {"reading", "opening"}}

\* C11: in the canvas variant the loading indicator is visible exactly while
\* at least one accepted load is between passing the validation and reaching
\* its finally block, for every interleaving of overlapping loadFile calls.
C11_LoadingWhileInProgress ==
  variant = "canvas" => (loading <=> LoadsInProgress # {})

\* C12: while the runtime was never constructed (createInstance threw, so no
\* instance exists), no loadFile call has started a read or an openDocument
\* call, each has shown an error notification, and the new-drawing button is
\* neither hidden nor has the population routine run.
C12_NothingWithoutRuntime ==
  ~instance =>
    /\ buttonVisible
    /\ populateCalls = 0
    /\ \A i \in 1..Len(loads) :
         /\ loads[i].reads = 0
         /\ loads[i].opens = 0
         /\ ErrorShownBy(i)

====
